---- MODULE Spec2Model ----
(***************************************************************************)
(* Model of the three solver cells of 17_ODE_BVP.ipynb:                    *)
(*   - the shooting method cell        (source lines 153-231),             *)
(*   - the Dirichlet finite-difference cell (source lines 446-476),        *)
(*   - the mixed Dirichlet/Neumann cell     (source lines 640-676).        *)
(* The cells run in one Python namespace, so they share the variables      *)
(* a, b, N, u_a, u_b, ...; each cell is one specification (SpecShoot,      *)
(* SpecDirichlet, SpecMixed) starting from its own problem setup.          *)
(*                                                                         *)
(* Numbers.  Python floats are modelled by exact rationals <<num, den>>    *)
(* (den > 0, lowest terms), so floating-point round-off is abstracted;     *)
(* SpecShootFloat is the shooting cell with the guess and its step rounded *)
(* to a significand of MantissaBits bits after every update.               *)
(* In the shooting cell the sampled solution values u[0, :] are integers   *)
(* counted in units of TOLERANCE (1e-8), so u_b = pi/2 is 157079633; the   *)
(* integrator is an external routine: what it returns at a sample point    *)
(* and whether it reports success are nondeterministic.                    *)
(***************************************************************************)
EXTENDS Integers, Sequences, FiniteSets, TLC

VARIABLES
    pc,           \* position of the running cell
    a, b,         \* interval end points
    N,            \* number of points
    u_a, u_b,     \* boundary values
    u_x_b,        \* Neumann boundary value (mixed cell)
    f,            \* the source term f(x), as the name of a rational function
    x_bc,         \* grid including the boundary points
    delta_x,      \* grid spacing
    A,            \* system matrix
    rhs,          \* right-hand side vector (the source rebinds the name b to it)
    U,            \* solution vector
    u_prime_rhs,  \* shooting: current guess of the initial slope
    du_prime,     \* shooting: current step of the guess
    success,      \* shooting: convergence flag
    u,            \* shooting: sampled solution u[0, :]
    convergence,  \* shooting: residual of every iteration
    n,            \* shooting: loop index of the main loop (-1: not yet bound)
    i,            \* shooting: index of the inner loop over x[1:]
    y0,           \* shooting: initial value handed to the integrator
    successful,   \* shooting: integrator.successful() after the last integrate()
    calls,        \* shooting: number of integrator.integrate() calls made so far
    reported,     \* shooting: the slice convergence[:n] handed to semilogy
    direction     \* shooting: branch the last guess adjustment took
                  \* ("none" before the first adjustment)

vars == <<pc, a, b, N, u_a, u_b, u_x_b, f, x_bc, delta_x, A, rhs, U,
          u_prime_rhs, du_prime, success, u, convergence, n, i, y0,
          successful, calls, reported, direction>>

fdVars == <<a, b, u_x_b, f, x_bc, delta_x, A, rhs, U>>

shootVars == <<u_prime_rhs, du_prime, success, u, convergence, n, i, y0,
               successful, calls, reported, direction>>

(***************************************************************************)
(* Bounds of the model.                                                    *)
(***************************************************************************)
\* number of main-loop iterations explored (the source runs 100)
MAX_ITERATIONS == 4
\* largest number of shooting sample points explored (the source uses 100)
MaxSamples == 3
\* largest number of interior grid points explored (the source uses 10)
MaxGrid == 4
\* bits of the significand of a float in SpecShootFloat (a Python float
\* has 53)
MantissaBits == 2

(***************************************************************************)
(* Exact rational arithmetic standing for Python float arithmetic.         *)
(***************************************************************************)
Abs(k) == IF k < 0 THEN -k ELSE k

RECURSIVE GCD(_, _)
GCD(p, q) == IF q = 0 THEN p ELSE GCD(q, p % q)

Norm(p, q) ==
    LET s == IF q < 0 THEN -1 ELSE 1
        g == GCD(Abs(p), Abs(q))
    IN  <<(s * p) \div g, (s * q) \div g>>

R(k) == <<k, 1>>
Zero == R(0)
One == R(1)
Half == <<1, 2>>

RAdd(p, q) ==
    LET g == GCD(p[2], q[2])
    IN  Norm(p[1] * (q[2] \div g) + q[1] * (p[2] \div g),
             (p[2] \div g) * q[2])
RNeg(p) == <<-p[1], p[2]>>
RSub(p, q) == RAdd(p, RNeg(q))
RMul(p, q) ==
    LET g == GCD(Abs(p[1]), q[2])
        h == GCD(Abs(q[1]), p[2])
    IN  Norm((p[1] \div g) * (q[1] \div h), (p[2] \div h) * (q[2] \div g))
RDiv(p, q) == RMul(p, Norm(q[2], q[1]))
RLt(p, q) == p[1] * q[2] < q[1] * p[2]
RAbs(p) == <<Abs(p[1]), p[2]>>
RSq(p) == RMul(p, p)

(***************************************************************************)
(* Floating-point rounding: the nearest number with a significand of       *)
(* MantissaBits bits, ties to the even significand, exponent unbounded.    *)
(***************************************************************************)
RECURSIVE Pow2(_)
Pow2(k) == IF k = 0 THEN 1 ELSE 2 * Pow2(k - 1)

\* nearest integer to a positive rational, ties to even
RoundHalfEven(p) ==
    LET fl == p[1] \div p[2]
        twice == 2 * (p[1] - fl * p[2])
    IN  IF twice < p[2] THEN fl
        ELSE IF twice > p[2] THEN fl + 1
        ELSE IF fl % 2 = 0 THEN fl ELSE fl + 1

\* a positive rational rounded to MantissaBits significant bits
RECURSIVE RoundPositive(_)
RoundPositive(p) ==
    IF ~RLt(p, R(Pow2(MantissaBits)))
    THEN LET r == RoundPositive(Norm(p[1], 2 * p[2]))
         IN  IF r = r THEN Norm(2 * r[1], r[2]) ELSE Zero
    ELSE IF RLt(p, R(Pow2(MantissaBits - 1)))
    THEN LET r == RoundPositive(Norm(2 * p[1], p[2]))
         IN  IF r = r THEN Norm(r[1], 2 * r[2]) ELSE Zero
    ELSE R(RoundHalfEven(p))

\* the float a real result is stored as
Float(p) ==
    IF p[1] = 0 THEN Zero
    ELSE IF p[1] < 0 THEN RNeg(RoundPositive(RNeg(p)))
    ELSE RoundPositive(p)

(***************************************************************************)
(* Shooting method cell.                                                   *)
(***************************************************************************)
\* TOLERANCE = 1e-8: the unit in which the sampled values are counted
TOLERANCE == 1

\* range(m): the indices the main loop runs over
\* variant with one index too many (shows C3 rests on the loop range)
rangeOffByOne(m) == 0 .. m
range(m) == 0 .. (m - 1)

\* values integrator.y[0] may take: the target, and one and two tolerance
\* units below and above it
YVals == {u_b - 2, u_b - 1, u_b, u_b + 1, u_b + 2}

\* numpy.abs(u[0, -1] - u_b)
Residual(ue, ub) == Abs(ue - ub)

\* the stopping test: residual strictly below the tolerance
\* variant with a non-strict test (shows C2 rests on the strict test)
ConvergedNonStrict(r) == r <= TOLERANCE
Converged(r) == r < TOLERANCE

\* `if not integrator.successful(): raise Exception(...)`
\* variant that ignores the integrator's report (shows C4 rests on the raise)
IntegrationFailsIgnored(ok) == FALSE
IntegrationFails(ok) == ~ok

\* the branch of `if u[0, -1] < u_b` an adjustment of the guess takes
Direction(ue, ub) == IF ue < ub THEN "up" ELSE "down"

\* the else branch of the stopping test: <<new guess, new step>>
\* variant that halves the step before subtracting it (shows C1 rests on
\* the order of the two statements)
UpdateGuessHalveFirst(s, ds, ue, ub) ==
    IF ue < ub
    THEN <<RAdd(s, ds), ds>>
    ELSE <<RSub(s, RMul(ds, Half)), RMul(ds, Half)>>
\* variant that halves the step only when the branch differs from the one
\* of the preceding adjustment (shows C12 rests on halving in every decrease)
UpdateGuessOnReversal(s, ds, ue, ub) ==
    IF ue < ub
    THEN <<RAdd(s, ds), IF direction = "down" THEN RMul(ds, Half) ELSE ds>>
    ELSE <<RSub(s, ds), IF direction = "up" THEN RMul(ds, Half) ELSE ds>>
UpdateGuess(s, ds, ue, ub) ==
    IF ue < ub
    THEN <<RAdd(s, ds), ds>>
    ELSE <<RSub(s, ds), RMul(ds, Half)>>
\* the same update with every result rounded to a float
\* variant that never halves the step (shows C14 rests on the halving)
UpdateGuessFloatKeepStep(s, ds, ue, ub) ==
    IF ue < ub
    THEN <<Float(RAdd(s, ds)), ds>>
    ELSE <<Float(RSub(s, ds)), ds>>
UpdateGuessFloat(s, ds, ue, ub) ==
    IF ue < ub
    THEN <<Float(RAdd(s, ds)), ds>>
    ELSE <<Float(RSub(s, ds)), Float(RMul(ds, Half))>>

\* u[0, -1]: the last sample (the first one when there is only one)
LastSample == u[N - 1]

InitShoot ==
    /\ pc = "loop"
    /\ N \in 1 .. MaxSamples
    /\ u_a = 0
    /\ u_b = 157079633
    /\ u_prime_rhs = One
    /\ du_prime \in {Half, Zero, RNeg(Half)}
    /\ success = FALSE
    /\ u = [k \in 0 .. (N - 1) |-> -1]   \* numpy.empty: not yet written
    /\ convergence = [k \in 0 .. (MAX_ITERATIONS - 1) |-> 0]
    /\ n = -1
    /\ i = 0
    /\ y0 = <<>>
    /\ successful = TRUE
    /\ calls = 0
    /\ reported = <<>>
    /\ direction = "none"
    /\ a = Zero /\ b = R(2)
    /\ u_x_b = Zero /\ f = "none" /\ x_bc = <<>> /\ delta_x = Zero
    /\ A = <<>> /\ rhs = <<>> /\ U = <<>>

\* `for n in range(MAX_ITERATIONS):` takes the next index; initial condition
\* u[:, 0] and construction of the integrator
BeginIteration ==
    /\ pc = "loop"
    /\ n + 1 \in range(MAX_ITERATIONS)
    /\ n' = n + 1
    /\ u' = [u EXCEPT ![0] = u_a]
    /\ y0' = <<u_a, u_prime_rhs>>
    /\ successful' = TRUE
    /\ i' = 0
    /\ pc' = "integrate"
    /\ UNCHANGED <<N, u_a, u_b, u_prime_rhs, du_prime, success, convergence,
                   calls, reported, direction>>
    /\ UNCHANGED fdVars

\* one pass of `for (i, x_output) in enumerate(x[1:])`: integrate to the next
\* sample point, raise when the integrator reports failure, else store y
Integrate ==
    /\ pc = "integrate"
    /\ i < N - 1
    /\ calls' = calls + 1
    /\ \E ok \in BOOLEAN :
         /\ successful' = ok
         /\ IF IntegrationFails(ok)
            THEN /\ pc' = "Exception"
                 /\ UNCHANGED <<u, i>>
            ELSE /\ \E y \in YVals : u' = [u EXCEPT ![i + 1] = y]
                 /\ i' = i + 1
                 /\ pc' = "integrate"
    /\ UNCHANGED <<N, u_a, u_b, u_prime_rhs, du_prime, success, convergence,
                   n, y0, reported, direction>>
    /\ UNCHANGED fdVars

\* the stopping criteria and the update of the guess, after the inner loop
StoppingCriteria ==
    /\ pc = "integrate"
    /\ i = N - 1
    /\ IF n \notin DOMAIN convergence
       THEN /\ pc' = "IndexError"
            /\ UNCHANGED <<convergence, success, u_prime_rhs, du_prime,
                           direction>>
       ELSE /\ convergence' =
                 [convergence EXCEPT ![n] = Residual(LastSample, u_b)]
            /\ IF Converged(Residual(LastSample, u_b))
               THEN /\ success' = TRUE
                    /\ pc' = "report"
                    /\ UNCHANGED <<u_prime_rhs, du_prime, direction>>
               ELSE /\ u_prime_rhs' =
                         UpdateGuess(u_prime_rhs, du_prime, LastSample, u_b)[1]
                    /\ du_prime' =
                         UpdateGuess(u_prime_rhs, du_prime, LastSample, u_b)[2]
                    /\ direction' = Direction(LastSample, u_b)
                    /\ pc' = "loop"
                    /\ UNCHANGED success
    /\ UNCHANGED <<N, u_a, u_b, u, n, i, y0, successful, calls, reported>>
    /\ UNCHANGED fdVars

\* range(MAX_ITERATIONS) is exhausted: the loop ends, n keeps its last value
LoopExhausted ==
    /\ pc = "loop"
    /\ n + 1 \notin range(MAX_ITERATIONS)
    /\ pc' = "report"
    /\ UNCHANGED <<N, u_a, u_b>>
    /\ UNCHANGED shootVars
    /\ UNCHANGED fdVars

\* the slice convergence[:n]
SliceTo(c, k) == [j \in 1 .. k |-> c[j - 1]]

\* n_range = numpy.arange(n); axes.semilogy(n_range, convergence[:n])
Report ==
    /\ pc = "report"
    /\ reported' = SliceTo(convergence, n)
    /\ pc' = "done"
    /\ UNCHANGED <<N, u_a, u_b, u_prime_rhs, du_prime, success, u,
                   convergence, n, i, y0, successful, calls, direction>>
    /\ UNCHANGED fdVars

\* the stopping criteria and the update of the guess in float arithmetic
StoppingCriteriaFloat ==
    /\ pc = "integrate"
    /\ i = N - 1
    /\ IF n \notin DOMAIN convergence
       THEN /\ pc' = "IndexError"
            /\ UNCHANGED <<convergence, success, u_prime_rhs, du_prime,
                           direction>>
       ELSE /\ convergence' =
                 [convergence EXCEPT ![n] = Residual(LastSample, u_b)]
            /\ IF Converged(Residual(LastSample, u_b))
               THEN /\ success' = TRUE
                    /\ pc' = "report"
                    /\ UNCHANGED <<u_prime_rhs, du_prime, direction>>
               ELSE /\ u_prime_rhs' =
                         UpdateGuessFloat(u_prime_rhs, du_prime,
                                          LastSample, u_b)[1]
                    /\ du_prime' =
                         UpdateGuessFloat(u_prime_rhs, du_prime,
                                          LastSample, u_b)[2]
                    /\ direction' = Direction(LastSample, u_b)
                    /\ pc' = "loop"
                    /\ UNCHANGED success
    /\ UNCHANGED <<N, u_a, u_b, u, n, i, y0, successful, calls, reported>>
    /\ UNCHANGED fdVars

NextShoot ==
    \/ BeginIteration
    \/ Integrate
    \/ StoppingCriteria
    \/ LoopExhausted
    \/ Report

SpecShoot == InitShoot /\ [][NextShoot]_vars

\* the shooting cell with the guess and its step held as floats
NextShootFloat ==
    \/ BeginIteration
    \/ Integrate
    \/ StoppingCriteriaFloat
    \/ LoopExhausted
    \/ Report

SpecShootFloat == InitShoot /\ [][NextShootFloat]_vars

(***************************************************************************)
(* numpy arrays: a vector is a function on 0 .. m-1, a matrix a vector of  *)
(* rows.                                                                   *)
(***************************************************************************)
Size(v) == Cardinality(DOMAIN v)

\* v[-1 - back]: Python's negative index
FromEnd(v, back) == Size(v) - 1 - back

\* numpy.linspace(start, stop, num) for num >= 2
linspace(start, stop, num) ==
    [k \in 0 .. (num - 1) |->
        RAdd(start, RMul(R(k), RDiv(RSub(stop, start), R(num - 1))))]

\* v[1:-1]
Interior(v) == [k \in 0 .. (Size(v) - 3) |-> v[k + 1]]

\* v[:-1]
DropLast(v) == [k \in 0 .. (Size(v) - 2) |-> v[k]]

\* numpy.zeros((m, m))
zeros(m) == [r \in 0 .. (m - 1) |-> [c \in 0 .. (m - 1) |-> Zero]]

\* numpy.diag(v, k): the square matrix of size len(v) + |k| with v on its
\* k-th diagonal
diag(v, k) ==
    LET m == Size(v) + Abs(k)
    IN  [r \in 0 .. (m - 1) |->
           [c \in 0 .. (m - 1) |->
              IF c - r = k THEN v[IF k >= 0 THEN r ELSE c] ELSE Zero]]

\* M += D: D has the shape of M, or is 1 x 1 and is broadcast
MatAdd(M, D) ==
    [r \in DOMAIN M |->
       [c \in DOMAIN M[r] |->
          IF Size(D) = Size(M) THEN RAdd(M[r][c], D[r][c])
                               ELSE RAdd(M[r][c], D[0][0])]]

\* the source term: the cell's f is a parameter of the method; the model
\* draws it from rational-valued functions
FNames == {"zero", "one", "x", "sq"}
F(name, x) ==
    CASE name = "zero" -> Zero
      [] name = "one"  -> One
      [] name = "x"    -> x
      [] OTHER         -> RSq(x)

\* lines "Construct matrix A": zeros, then the three diagonals added
\* variant with +2 on the main diagonal (shows C8 rests on the stencil)
ConstructMatrixPlusTwo(m, dx) ==
    LET diagonal == [k \in 0 .. (m - 1) |-> RDiv(One, RSq(dx))]
        main == [k \in 0 .. (m - 1) |-> RMul(diagonal[k], R(2))]
    IN  MatAdd(MatAdd(MatAdd(zeros(m), diag(main, 0)),
                      diag(DropLast(diagonal), 1)),
               diag(DropLast(diagonal), -1))
ConstructMatrix(m, dx) ==
    LET diagonal == [k \in 0 .. (m - 1) |-> RDiv(One, RSq(dx))]
        main == [k \in 0 .. (m - 1) |-> RMul(diagonal[k], R(-2))]
    IN  MatAdd(MatAdd(MatAdd(zeros(m), diag(main, 0)),
                      diag(DropLast(diagonal), 1)),
               diag(DropLast(diagonal), -1))

\* numpy.linalg.solve(M, v): elimination with partial pivoting on the
\* augmented matrix; ok = FALSE when M is singular (LinAlgError)
RECURSIVE Eliminate(_, _, _)
Eliminate(M, k, m) ==
    IF k = m THEN [ok |-> TRUE, M |-> M]
    ELSE
      LET cand == {r \in k .. (m - 1) : M[r][k] # Zero}
      IN  IF cand = {} THEN [ok |-> FALSE, M |-> M]
          ELSE
            LET p == CHOOSE r \in cand : \A q \in cand :
                        \/ RLt(RAbs(M[q][k]), RAbs(M[r][k]))
                        \/ (RAbs(M[q][k]) = RAbs(M[r][k]) /\ r <= q)
                sw == [r \in 0 .. (m - 1) |->
                         IF r = k THEN M[p] ELSE IF r = p THEN M[k] ELSE M[r]]
                red == [r \in 0 .. (m - 1) |->
                          IF r = k THEN sw[k]
                          ELSE [c \in 0 .. m |->
                                  RSub(sw[r][c],
                                       RMul(RDiv(sw[r][k], sw[k][k]),
                                            sw[k][c]))]]
            IN  \* (red = red makes TLC compute the reduced matrix once)
                IF red = red THEN Eliminate(red, k + 1, m)
                             ELSE [ok |-> FALSE, M |-> M]

solve(M, v) ==
    LET m == Size(v)
        aug == [r \in 0 .. (m - 1) |->
                  [c \in 0 .. m |-> IF c = m THEN v[r] ELSE M[r][c]]]
        e == Eliminate(aug, 0, m)
    IN  [ok |-> e.ok,
         x |-> IF e.ok
               THEN [r \in 0 .. (m - 1) |-> RDiv(e.M[r][m], e.M[r][r])]
               ELSE <<>>]

(***************************************************************************)
(* Dirichlet finite-difference cell.                                       *)
(***************************************************************************)
\* x = x_bc[1:-1]
x == Interior(x_bc)

\* lines "Construct RHS": b = f(x); b[0] -= u_a / dx^2; b[-1] -= u_b / dx^2
\* variant that assigns the two end entries from f(x) instead of
\* subtracting one after the other (differs when N = 1; C7 rests on it)
ConstructRHSAssign(fx, ua, ub, dx) ==
    [k \in DOMAIN fx |->
        IF k = FromEnd(fx, 0) THEN RSub(fx[k], RDiv(ub, RSq(dx)))
        ELSE IF k = 0 THEN RSub(fx[k], RDiv(ua, RSq(dx)))
        ELSE fx[k]]
ConstructRHS(fx, ua, ub, dx) ==
    LET b1 == [fx EXCEPT ![0] = RSub(@, RDiv(ua, RSq(dx)))]
    IN  [b1 EXCEPT ![FromEnd(fx, 0)] = RSub(@, RDiv(ub, RSq(dx)))]

\* lines "Solve system": U = empty(N + 2); U[0] = u_a; U[-1] = u_b;
\* U[1:-1] = the solution
\* variant that copies u_a into the last entry too (C6 rests on U[-1] = u_b)
AssembleUCopySlip(m, ua, ub, sol) ==
    [k \in 0 .. (m + 1) |->
        IF k = 0 THEN ua ELSE IF k = m + 1 THEN ua ELSE sol[k - 1]]
AssembleU(m, ua, ub, sol) ==
    [k \in 0 .. (m + 1) |->
        IF k = 0 THEN ua ELSE IF k = m + 1 THEN ub ELSE sol[k - 1]]

InitDirichlet ==
    /\ pc = "discretize"
    /\ a \in {R(0), R(-1)}
    /\ b \in {R(1), R(2)}
    /\ u_a \in {R(0), R(3), <<-1, 2>>}
    /\ u_b \in {R(3), R(0), R(1)}
    /\ f \in FNames
    /\ N \in 0 .. MaxGrid
    /\ x_bc = <<>> /\ delta_x = Zero /\ A = <<>> /\ rhs = <<>> /\ U = <<>>
    /\ u_x_b = Zero
    /\ u_prime_rhs = Zero /\ du_prime = Zero /\ success = FALSE /\ u = <<>>
    /\ convergence = <<>> /\ n = -1 /\ i = 0 /\ y0 = <<>>
    /\ successful = TRUE /\ calls = 0 /\ reported = <<>>
    /\ direction = "none"

\* lines "Descretization"
Discretize ==
    /\ pc = "discretize"
    /\ x_bc' = linspace(a, b, N + 2)
    /\ delta_x' = RDiv(RSub(b, a), R(N + 1))
    /\ pc' = "matrix"
    /\ UNCHANGED <<a, b, N, u_a, u_b, u_x_b, f, A, rhs, U>>
    /\ UNCHANGED shootVars

DirichletMatrix ==
    /\ pc = "matrix"
    /\ A' = ConstructMatrix(N, delta_x)
    /\ pc' = "rhs"
    /\ UNCHANGED <<a, b, N, u_a, u_b, u_x_b, f, x_bc, delta_x, rhs, U>>
    /\ UNCHANGED shootVars

\* an empty b (N = 0) makes b[0] an IndexError
DirichletRHS ==
    /\ pc = "rhs"
    /\ IF N = 0
       THEN /\ rhs' = [k \in DOMAIN x |-> F(f, x[k])]
            /\ pc' = "IndexError"
       ELSE /\ rhs' = ConstructRHS([k \in DOMAIN x |-> F(f, x[k])],
                                   u_a, u_b, delta_x)
            /\ pc' = "solve"
    /\ UNCHANGED <<a, b, N, u_a, u_b, u_x_b, f, x_bc, delta_x, A, U>>
    /\ UNCHANGED shootVars

DirichletSolve ==
    /\ pc = "solve"
    /\ IF solve(A, rhs).ok
       THEN /\ U' = AssembleU(N, u_a, u_b, solve(A, rhs).x)
            /\ pc' = "done"
       ELSE /\ U' = <<>>
            /\ pc' = "LinAlgError"
    /\ UNCHANGED <<a, b, N, u_a, u_b, u_x_b, f, x_bc, delta_x, A, rhs>>
    /\ UNCHANGED shootVars

NextDirichlet ==
    \/ Discretize
    \/ DirichletMatrix
    \/ DirichletRHS
    \/ DirichletSolve

SpecDirichlet == InitDirichlet /\ [][NextDirichlet]_vars

(***************************************************************************)
(* Mixed Dirichlet / Neumann cell.                                         *)
(***************************************************************************)
\* lines "Boundary conditions", the matrix: A[0, 0], A[0, 1], A[-1, -1],
\* A[-1, -2], A[-1, -3], one assignment after the other
\* variant without A[0, 1] = 0.0 (C10 rests on it)
BoundaryRowsNoZero(M, dx) ==
    LET l == FromEnd(M, 0)
        M1 == [M EXCEPT ![0][0] = One]
        M3 == [M1 EXCEPT ![l][l] = RDiv(R(3), RMul(R(2), dx))]
        M4 == [M3 EXCEPT ![l][l - 1] = RDiv(R(-4), RMul(R(2), dx))]
    IN  [M4 EXCEPT ![l][l - 2] = RDiv(One, RMul(R(2), dx))]
\* variant without the A[-1, -3] assignment (C9 rests on it)
BoundaryRowsNoThird(M, dx) ==
    LET l == FromEnd(M, 0)
        M1 == [M EXCEPT ![0][0] = One]
        M2 == [M1 EXCEPT ![0][1] = Zero]
        M3 == [M2 EXCEPT ![l][l] = RDiv(R(3), RMul(R(2), dx))]
    IN  [M3 EXCEPT ![l][l - 1] = RDiv(R(-4), RMul(R(2), dx))]
BoundaryRows(M, dx) ==
    LET l == FromEnd(M, 0)
        M1 == [M EXCEPT ![0][0] = One]
        M2 == [M1 EXCEPT ![0][1] = Zero]
        M3 == [M2 EXCEPT ![l][l] = RDiv(R(3), RMul(R(2), dx))]
        M4 == [M3 EXCEPT ![l][l - 1] = RDiv(R(-4), RMul(R(2), dx))]
    IN  IF l - 2 \in DOMAIN M
        THEN [M4 EXCEPT ![l][l - 2] = RDiv(One, RMul(R(2), dx))]
        ELSE M4

\* lines "Boundary conditions", the right-hand side: b[0] = u_a; b[-1] = u_x_b
BoundaryRHS(v, ua, uxb) ==
    LET v1 == [v EXCEPT ![0] = ua]
    IN  [v1 EXCEPT ![FromEnd(v, 0)] = uxb]

InitMixed ==
    /\ pc = "discretize"
    /\ a \in {R(-1), R(0)}
    /\ b \in {R(1), R(2)}
    /\ u_a \in {R(3), R(0)}
    /\ u_x_b \in {R(-5), R(0), R(1)}
    /\ f \in FNames
    /\ N \in 0 .. MaxGrid
    /\ x_bc = <<>> /\ delta_x = Zero /\ A = <<>> /\ rhs = <<>> /\ U = <<>>
    /\ u_b = Zero
    /\ u_prime_rhs = Zero /\ du_prime = Zero /\ success = FALSE /\ u = <<>>
    /\ convergence = <<>> /\ n = -1 /\ i = 0 /\ y0 = <<>>
    /\ successful = TRUE /\ calls = 0 /\ reported = <<>>
    /\ direction = "none"

MixedMatrix ==
    /\ pc = "matrix"
    /\ A' = ConstructMatrix(N + 2, delta_x)
    /\ pc' = "rhs"
    /\ UNCHANGED <<a, b, N, u_a, u_b, u_x_b, f, x_bc, delta_x, rhs, U>>
    /\ UNCHANGED shootVars

\* b = f(x_bc)
MixedRHS ==
    /\ pc = "rhs"
    /\ rhs' = [k \in DOMAIN x_bc |-> F(f, x_bc[k])]
    /\ pc' = "boundary"
    /\ UNCHANGED <<a, b, N, u_a, u_b, u_x_b, f, x_bc, delta_x, A, U>>
    /\ UNCHANGED shootVars

\* with N = 0 the matrix is 2 x 2 and A[-1, -3] is an IndexError
MixedBoundary ==
    /\ pc = "boundary"
    /\ A' = BoundaryRows(A, delta_x)
    /\ IF FromEnd(A, 2) \in DOMAIN A
       THEN /\ rhs' = BoundaryRHS(rhs, u_a, u_x_b)
            /\ pc' = "solve"
       ELSE /\ rhs' = rhs
            /\ pc' = "IndexError"
    /\ UNCHANGED <<a, b, N, u_a, u_b, u_x_b, f, x_bc, delta_x, U>>
    /\ UNCHANGED shootVars

\* U = numpy.linalg.solve(A, b)
MixedSolve ==
    /\ pc = "solve"
    /\ IF solve(A, rhs).ok
       THEN /\ U' = solve(A, rhs).x
            /\ pc' = "done"
       ELSE /\ U' = <<>>
            /\ pc' = "LinAlgError"
    /\ UNCHANGED <<a, b, N, u_a, u_b, u_x_b, f, x_bc, delta_x, A, rhs>>
    /\ UNCHANGED shootVars

NextMixed ==
    \/ Discretize
    \/ MixedMatrix
    \/ MixedRHS
    \/ MixedBoundary
    \/ MixedSolve

SpecMixed == InitMixed /\ [][NextMixed]_vars

(***************************************************************************)
(* Properties of the shooting cell.                                        *)
(***************************************************************************)
\* r = p + q and r = p - q on rationals, by cross-multiplication
IsSum(r, p, q) == r[1] * p[2] * q[2] = (p[1] * q[2] + q[1] * p[2]) * r[2]
IsDiff(r, p, q) == r[1] * p[2] * q[2] = (p[1] * q[2] - q[1] * p[2]) * r[2]

\* the inner loop is over: the stopping criteria are the next statement
AtCriteria == pc = "integrate" /\ i = N - 1

\* C1: in every iteration whose residual is not below TOLERANCE, a computed
\* u(b) strictly below the target makes the guess s + ds and leaves ds alone;
\* otherwise the guess becomes s - ds with the old ds, and ds becomes ds / 2.
C1_UpdateRule ==
    [][(AtCriteria /\ ~(Abs(u[N - 1] - u_b) < TOLERANCE)) =>
          IF u[N - 1] < u_b
          THEN /\ IsSum(u_prime_rhs', u_prime_rhs, du_prime)
               /\ du_prime' = du_prime
          ELSE /\ IsDiff(u_prime_rhs', u_prime_rhs, du_prime)
               /\ IsSum(du_prime, du_prime', du_prime')]_vars

\* a decrease followed by an increase: 1 - 1/2 + 1/4
C1_Witness ==
    /\ pc = "loop" /\ n = 1
    /\ u_prime_rhs = <<3, 4>> /\ du_prime = <<1, 4>>
    /\ convergence[0] >= TOLERANCE /\ convergence[1] >= TOLERANCE

\* C2: success is set exactly at the first iteration whose residual is
\* strictly below TOLERANCE, the loop stops there, no integration starts
\* afterwards and that iteration leaves the guess and its step alone.
C2_SuccessStops ==
    /\ [](success =>
            /\ pc \in {"report", "done"}
            /\ n \in 0 .. (MAX_ITERATIONS - 1)
            /\ convergence[n] < TOLERANCE
            /\ \A k \in 0 .. (n - 1) : convergence[k] >= TOLERANCE)
    /\ [][/\ (AtCriteria /\ Abs(u[N - 1] - u_b) < TOLERANCE) =>
                (success' /\ pc' = "report")
          /\ (~success /\ success') =>
                /\ AtCriteria
                /\ u_prime_rhs' = u_prime_rhs
                /\ du_prime' = du_prime
          /\ success =>
                (success' /\ calls' = calls /\ n' = n /\ y0' = y0
                 /\ convergence' = convergence)]_vars

C2_Witness ==
    /\ pc = "done" /\ success /\ n = 2
    /\ convergence[2] = 0 /\ convergence[1] = TOLERANCE

\* progress measure of the cell: it grows with every step and is bounded
Rank ==
    CASE pc = "integrate" -> (n + 1) * (N + 2) + i
      [] pc = "loop"      -> (n + 1) * (N + 2) + N + 1
      [] pc = "report"    -> (MAX_ITERATIONS + 1) * (N + 2)
      [] OTHER            -> (MAX_ITERATIONS + 1) * (N + 2) + 1

\* C3: the loop runs at most MAX_ITERATIONS iterations of one integration
\* each and every step makes progress; when no residual is below TOLERANCE
\* it ends without an error, success = false, and slot k of the trace holds
\* the residual of iteration k for all MAX_ITERATIONS iterations.
C3_BoundedLoop ==
    /\ [](/\ n <= MAX_ITERATIONS - 1
          /\ calls <= (n + 1) * (N - 1)
          /\ Rank <= (MAX_ITERATIONS + 1) * (N + 2) + 1
          /\ pc # "IndexError"
          /\ pc = "Exception" => ~successful
          /\ \A k \in DOMAIN convergence : k > n => convergence[k] = 0
          /\ (pc \in {"report", "done"} /\ ~success) =>
                /\ n = MAX_ITERATIONS - 1
                /\ DOMAIN convergence = 0 .. (MAX_ITERATIONS - 1)
                /\ \A k \in 0 .. (MAX_ITERATIONS - 1) :
                      convergence[k] >= TOLERANCE)
    /\ [][/\ Rank' > Rank
          /\ AtCriteria =>
                /\ n \in DOMAIN convergence
                /\ convergence' =
                      [convergence EXCEPT ![n] = Abs(u[N - 1] - u_b)]
          /\ ~AtCriteria => convergence' = convergence]_vars

C3_Witness ==
    /\ pc = "done" /\ ~success /\ n = MAX_ITERATIONS - 1
    /\ N = MaxSamples /\ calls = MAX_ITERATIONS * (N - 1)
    /\ convergence[0] # convergence[1]

\* C4: a failure reported by the integrator aborts the run at that sample
\* point: nothing is stored, recorded or adjusted by the failing step, no
\* step follows it, success stays false and the residuals of the completed
\* iterations stay in the trace.
C4_IntegrationFailureFatal ==
    /\ [](/\ ~successful => pc = "Exception"
          /\ pc = "Exception" =>
                /\ ~success
                /\ n \in DOMAIN convergence
                /\ convergence[n] = 0
                /\ \A k \in 0 .. (n - 1) : convergence[k] >= TOLERANCE)
    /\ [][/\ (pc # "Exception" /\ pc' = "Exception") =>
                /\ pc = "integrate" /\ i < N - 1
                /\ calls' = calls + 1
                /\ UNCHANGED <<u, i, n, convergence, u_prime_rhs, du_prime,
                               success, reported>>
          /\ pc = "Exception" => UNCHANGED vars]_vars

C4_Witness ==
    /\ pc = "Exception" /\ n = 2 /\ i = 1
    /\ convergence[0] >= TOLERANCE /\ convergence[1] >= TOLERANCE

\* C5 (shooting part): a sample count N < 2 or a step du_prime <= 0 is
\* rejected before any integration is attempted: no integrate() call is
\* made and the cell does not run to its end.
C5_InvalidInputRejected ==
    (N < 2 \/ ~RLt(Zero, du_prime)) =>
        (calls = 0 /\ pc \notin {"report", "done"})

(***************************************************************************)
(* Properties of the finite-difference cells.                              *)
(***************************************************************************)
\* 1 / dx^2 and 1 / (2 dx) for dx = (b - a) / (N + 1), from the inputs
InvDx2 == RDiv(RSq(R(N + 1)), RSq(RSub(b, a)))
InvTwoDx == RDiv(R(N + 1), RMul(R(2), RSub(b, a)))

\* the grid point a + k (b - a) / (N + 1)
GridPoint(k) == RAdd(a, RDiv(RMul(R(k), RSub(b, a)), R(N + 1)))

\* sum of row[c] * vec[c + shift] over the columns c < k
RECURSIVE Dot(_, _, _, _)
Dot(row, vec, shift, k) ==
    IF k = 0 THEN Zero
    ELSE RAdd(Dot(row, vec, shift, k - 1),
              RMul(row[k - 1], vec[k - 1 + shift]))

\* determinant of the leading k x k block of a tridiagonal matrix
RECURSIVE Continuant(_, _)
Continuant(M, k) ==
    IF k = 0 THEN One
    ELSE IF k = 1 THEN M[0][0]
    ELSE RSub(RMul(M[k - 1][k - 1], Continuant(M, k - 1)),
              RMul(RMul(M[k - 1][k - 2], M[k - 2][k - 1]),
                   Continuant(M, k - 2)))

\* the interior stencil [1, -2, 1] / dx^2 centred on column r
IsStencilRow(row, r, m) ==
    \A c \in 0 .. (m - 1) :
        row[c] = IF c = r THEN RMul(R(-2), InvDx2)
                 ELSE IF Abs(c - r) = 1 THEN InvDx2
                 ELSE Zero

\* C6: for N >= 1 the Dirichlet cell ends with a vector U of N + 2 entries
\* whose first entry is u_a, whose last entry is u_b and whose entries
\* 1..N solve the N x N system A x = rhs, in grid order.
C6_DirichletOutput ==
    N >= 1 =>
        /\ pc \notin {"IndexError", "LinAlgError"}
        /\ pc = "done" =>
              /\ DOMAIN U = 0 .. (N + 1)
              /\ U[0] = u_a
              /\ U[N + 1] = u_b
              /\ \A r \in 0 .. (N - 1) : Dot(A[r], U, 1, N) = rhs[r]

C6_Witness ==
    /\ pc = "done" /\ N = MaxGrid
    /\ u_a = <<-1, 2>> /\ u_b = R(3) /\ f = "sq"
    /\ U[1] # U[N]

\* C7: for N >= 1 the assembled matrix is tridiagonal with -2/dx^2 on the
\* diagonal and 1/dx^2 beside it, dx = (b - a)/(N + 1); the right-hand side
\* is f(x_i) with u_a/dx^2 subtracted from the first and u_b/dx^2 from the
\* last entry (the same entry when N = 1); so the result satisfies
\* (U[i-1] - 2 U[i] + U[i+1]) / dx^2 = f(x_i) at every interior point.
C7_DirichletAssembly ==
    N >= 1 =>
        /\ pc \in {"rhs", "solve", "done"} =>
              /\ DOMAIN A = 0 .. (N - 1)
              /\ \A r \in 0 .. (N - 1) :
                    DOMAIN A[r] = 0 .. (N - 1) /\ IsStencilRow(A[r], r, N)
        /\ pc \in {"solve", "done"} =>
              /\ DOMAIN rhs = 0 .. (N - 1)
              /\ \A k \in 0 .. (N - 1) :
                    rhs[k] =
                      RSub(RSub(F(f, GridPoint(k + 1)),
                                IF k = 0 THEN RMul(u_a, InvDx2) ELSE Zero),
                           IF k = N - 1 THEN RMul(u_b, InvDx2) ELSE Zero)
        /\ pc = "done" =>
              /\ U[0] = u_a /\ U[N + 1] = u_b
              /\ \A k \in 1 .. N :
                    RMul(RAdd(RSub(U[k - 1], RMul(R(2), U[k])), U[k + 1]),
                         InvDx2) = F(f, GridPoint(k))

\* one interior point: both boundary values are folded into the same entry
C7_Witness ==
    /\ pc = "done" /\ N = 1
    /\ u_a = R(3) /\ u_b = R(1) /\ f = "one"
    /\ a = R(-1) /\ b = R(2)

\* C8: with f = 0 and N >= 1 the Dirichlet cell returns, at every grid point
\* x_i = a + i dx, the linear interpolation u_a + (u_b - u_a)(x_i - a)/(b - a),
\* and the assembled system has no other solution (its determinant is not 0).
C8_ExactOnLinear ==
    (N >= 1 /\ f = "zero") =>
        /\ pc # "LinAlgError"
        /\ pc \in {"rhs", "solve", "done"} => Continuant(A, N) # Zero
        /\ pc = "done" =>
              \A k \in 0 .. (N + 1) :
                 U[k] = RAdd(u_a,
                             RDiv(RMul(RSub(u_b, u_a),
                                       RSub(RAdd(a, RMul(R(k), delta_x)), a)),
                                  RSub(b, a)))

C8_Witness ==
    /\ pc = "done" /\ f = "zero" /\ N = MaxGrid
    /\ u_a = <<-1, 2>> /\ u_b = R(3)
    /\ a = R(-1) /\ b = R(2)

\* C9: for N >= 1, after the boundary overwrite the last row of the
\* (N+2) x (N+2) matrix is 1/(2dx) at column N-1, -4/(2dx) at column N,
\* 3/(2dx) at column N+1 and zero elsewhere, and the last right-hand-side
\* entry is the derivative value u_x_b.
C9_NeumannRow ==
    N >= 1 =>
        /\ pc # "IndexError"
        /\ pc \in {"solve", "done", "LinAlgError"} =>
              /\ DOMAIN A = 0 .. (N + 1)
              /\ DOMAIN A[N + 1] = 0 .. (N + 1)
              /\ \A c \in 0 .. (N + 1) :
                    A[N + 1][c] =
                       IF c = N - 1 THEN InvTwoDx
                       ELSE IF c = N THEN RMul(R(-4), InvTwoDx)
                       ELSE IF c = N + 1 THEN RMul(R(3), InvTwoDx)
                       ELSE Zero
              /\ DOMAIN rhs = 0 .. (N + 1)
              /\ rhs[N + 1] = u_x_b

\* one interior point: the three stencil columns are the whole row
C9_Witness ==
    /\ pc = "done" /\ N = 1 /\ u_x_b = R(-5)
    /\ A[2][0] = InvTwoDx

\* C10: for N >= 1, after the boundary overwrite row 0 is the identity row
\* and rhs[0] = u_a, so the solution has U[0] = u_a; rows 1..N still carry
\* the stencil [1, -2, 1]/dx^2 with right-hand side f(x_i).
C10_DirichletRow ==
    N >= 1 =>
        /\ pc \in {"solve", "done", "LinAlgError"} =>
              /\ \A c \in 0 .. (N + 1) :
                    A[0][c] = IF c = 0 THEN One ELSE Zero
              /\ rhs[0] = u_a
              /\ \A r \in 1 .. N :
                    /\ IsStencilRow(A[r], r, N + 2)
                    /\ rhs[r] = F(f, GridPoint(r))
        /\ pc = "done" =>
              /\ U[0] = u_a
              /\ \A r \in 0 .. (N + 1) : Dot(A[r], U, 0, N + 2) = rhs[r]

C10_Witness ==
    /\ pc = "done" /\ N = MaxGrid
    /\ u_a = R(3) /\ f = "x" /\ U[0] = R(3)
    /\ A[1][0] = InvDx2

(***************************************************************************)
(* Properties of the diagnostic report and of the search for the slope.    *)
(***************************************************************************)
\* number of iterations of the main loop that have run to their end
IterationsRun == n + 1

\* an iteration that adjusts the guess: its residual is not below TOLERANCE
Adjusts == AtCriteria /\ ~(Abs(u[N - 1] - u_b) < TOLERANCE)

\* C12 as stated: the step is halved in an iteration only when the direction
\* of its adjustment differs from the direction of the preceding adjustment,
\* so two consecutive decreases of the guess do not both halve the step.
C12_HalvedOnlyOnReversal ==
    [][(Adjusts /\ du_prime' # du_prime) => direction' # direction]_vars

\* C12 (amended): the step is halved in an iteration exactly when that
\* iteration decreases the guess (computed u(b) not below the target),
\* whatever the direction of the preceding adjustment: a decrease that
\* follows a decrease halves the step again, and an increase that follows a
\* decrease leaves it alone.
C12_HalvedOnEveryDecrease ==
    [][(Adjusts /\ du_prime # Zero) =>
          /\ direction' = IF u[N - 1] < u_b THEN "up" ELSE "down"
          /\ (du_prime' # du_prime) <=> (direction' = "down")
          /\ direction' = "down" => IsSum(du_prime, du_prime', du_prime')
          /\ (direction = "down" /\ direction' = "down") =>
                /\ IsDiff(u_prime_rhs', u_prime_rhs, du_prime)
                /\ RLt(RAbs(du_prime'), RAbs(du_prime))
          /\ (direction = "down" /\ direction' = "up") =>
                du_prime' = du_prime]_vars

\* two consecutive decreases, each of which halved the step: 1 - 1/2 - 1/4
C12_Witness ==
    /\ pc = "loop" /\ n = 1 /\ direction = "down"
    /\ u_prime_rhs = <<1, 4>> /\ du_prime = <<1, 8>>

\* C13: the trace handed to the report covers every iteration executed:
\* when the loop ran k iterations, by success or by exhausting
\* MAX_ITERATIONS, exactly k residuals are reported, in iteration order,
\* the last one being the residual of the final iteration.
C13_ReportCoversRun ==
    pc = "done" =>
        /\ Len(reported) = IterationsRun
        /\ \A k \in 1 .. IterationsRun :
              reported[k] = convergence[k - 1]
        /\ reported[IterationsRun] = Residual(LastSample, u_b)

\* s - 2 ds for a guess s and a step ds
GuessFloor(s, ds) == RSub(s, RMul(R(2), ds))

\* s - 2 ds is not lower after the step than before it
FloorKept ==
    ~RLt(GuessFloor(u_prime_rhs', du_prime'),
         GuessFloor(u_prime_rhs, du_prime))

====
